---- MODULE Spec2Model ----
(***************************************************************************)
(* A model of kataras/versioning: version resolution (GetVersion), the     *)
(* predicate If, the per-path matcher (NewMatcher), the deprecation        *)
(* wrapper (Deprecated) and version groups (Group).                        *)
(*                                                                         *)
(* Go strings that are parsed are modelled as sequences of one-character   *)
(* strings, indexed from 0 through the helpers below as Go does.  Strings  *)
(* that are only stored and compared (handler bodies, warning messages)    *)
(* are TLA+ strings.                                                       *)
(***************************************************************************)
EXTENDS Integers, Sequences, FiniteSets, TLC

VARIABLES
    r,          \* the request under consideration: context value and headers
    version,    \* the last result of GetVersion, as <<>> or <<string>>
    ifVersion,  \* the "v" argument of If
    ifIs,       \* the "is" argument of If
    ifResult,   \* what If returned, as <<>> or <<boolean>>
    versions,   \* the Map handed to NewMatcher
    matcher,    \* what NewMatcher produced: no matcher yet, a panic, or the handler
    w,          \* the response written for the request r
    wrapped,    \* a handler, wrapped by the calls of Deprecated so far
    wraps,      \* the options of those calls, in order
    groups,     \* the groups made by NewGroup, by name
    log,        \* the calls made on the groups, in order
    served,     \* the group route that was served, as <<>> or <<group, path>>
    registered, \* the calls of RegisterGroups so far, in order
    routes,     \* what the last RegisterGroups returned: path -> matcher
    mux,        \* what the last RegisterGroups registered on its mux
    inflight,   \* the requests one matcher is serving, by process
    op          \* the name of the last operation performed

vars ==
    <<r, version, ifVersion, ifIs, ifResult, versions, matcher, w, wrapped, wraps,
      groups, log, served, registered, routes, mux, inflight, op>>

(***************************************************************************)
(* Go string primitives.                                                   *)
(***************************************************************************)

\* s[from:to] of Go, 0-based, "to" exclusive.
Slice(s, from, to) == SubSeq(s, from + 1, to)

\* s[from:] of Go.
SliceFrom(s, from) == SubSeq(s, from + 1, Len(s))

\* strings.HasPrefix(s, prefix)
HasPrefix(s, prefix) ==
    /\ Len(prefix) <= Len(s)
    /\ SubSeq(s, 1, Len(prefix)) = prefix

\* strings.Index(s, substr): the 0-based index of the first occurrence,
\* or -1.
Index(s, substr) ==
    LET hits == {i \in 0..(Len(s) - Len(substr)) : HasPrefix(SliceFrom(s, i), substr)}
    IN  IF hits = {} THEN -1
        ELSE CHOOSE i \in hits : \A j \in hits : i <= j

(***************************************************************************)
(* version.go: constants.                                                  *)
(***************************************************************************)

contextKey == <<"a","p","i",".","v","e","r","s","i","o","n">>

NotFound == contextKey \o <<".","n","o","t","f","o","u","n","d">>

AcceptHeaderVersionValue == <<"v","e","r","s","i","o","n">>

(***************************************************************************)
(* A request carries the value stored under contextKey in its context      *)
(* (none, a string, or a value of another type) and the first values of    *)
(* the Accept-Version and Accept headers ("" when the header is absent,    *)
(* as http.Header.Get reports it).                                         *)
(***************************************************************************)
CtxNil == [type |-> "nil", value |-> <<>>]

CtxOther == [type |-> "other", value |-> <<>>]

WithVersion(v) == [type |-> "string", value |-> v]

\* GetVersion, third source: the "Accept" header, "...; version=1.0"
\* (version.go lines 68-94).
GetVersionFromAccept(acceptValue) ==
    LET idx == Index(acceptValue, AcceptHeaderVersionValue)
    IN  IF acceptValue # <<>> /\ idx # -1
        THEN LET rem0 == SliceFrom(acceptValue, idx)
                 startVersion == Index(rem0, <<"=">>)
             IN  IF startVersion = -1 \/ Len(rem0) < startVersion + 1
                 THEN NotFound
                 ELSE LET rem == SliceFrom(rem0, startVersion + 1)
                          sp  == Index(rem, <<" ">>)
                          sc  == Index(rem, <<";">>)
                          end == IF sp # -1 THEN sp
                                 ELSE IF sc # -1 THEN sc
                                 ELSE Len(rem)
                          ver == Slice(rem, 0, end)
                      IN  IF ver # <<>> THEN ver ELSE NotFound
        ELSE NotFound

\* A GetVersion that treats an empty override as no override.
GetVersionSkipEmptyOverride(req) ==
    IF req.ctx.type = "string" /\ req.ctx.value # <<>> THEN req.ctx.value
    ELSE IF req.AcceptVersion # <<>> THEN req.AcceptVersion
    ELSE GetVersionFromAccept(req.Accept)

\* GetVersion, version.go lines 55-95.
GetVersion(req) ==
    IF req.ctx.type = "string" THEN req.ctx.value
    ELSE IF req.AcceptVersion # <<>> THEN req.AcceptVersion
    ELSE GetVersionFromAccept(req.Accept)

(***************************************************************************)
(* github.com/hashicorp/go-version, as If and NewMatcher use it:           *)
(* version.NewVersion, Version.String, version.NewConstraint and           *)
(* Constraints.Check.  The strings of this model are written over digits,  *)
(* lower-case letters, ".", "~", " ", ",", ";", "^" and the operator       *)
(* characters; "-" and "+" (the explicit pre-release and build-metadata    *)
(* separators) are not part of the alphabet, and numbers stay far below    *)
(* the int64 range that strconv.ParseInt accepts.                          *)
(***************************************************************************)
Digits == <<"0","1","2","3","4","5","6","7","8","9">>

Letters ==
    {"a","b","c","d","e","f","g","h","i","j","k","l","m",
     "n","o","p","q","r","s","t","u","v","w","x","y","z"}

IsDigit(c) == \E i \in 1..10 : Digits[i] = c

DigitVal(c) == (CHOOSE i \in 1..10 : Digits[i] = c) - 1

\* The class [0-9A-Za-z\-~] of the version pattern, over this alphabet.
IsWord(c) == IsDigit(c) \/ c \in Letters \/ c = "~"

\* strconv.ParseInt(s, 10, 64) of a run of digits.
RECURSIVE ParseInt(_)
ParseInt(s) ==
    IF s = <<>> THEN 0
    ELSE ParseInt(SubSeq(s, 1, Len(s) - 1)) * 10 + DigitVal(s[Len(s)])

\* strconv.FormatInt(n, 10)
RECURSIVE FormatInt(_)
FormatInt(n) ==
    IF n < 10 THEN <<Digits[n + 1]>>
    ELSE FormatInt(n \div 10) \o <<Digits[(n % 10) + 1]>>

\* strings.Split(s, sep) for a one-character separator.
RECURSIVE Split(_, _)
Split(s, sep) ==
    LET i == Index(s, <<sep>>)
    IN  IF i = -1 THEN <<s>>
        ELSE <<Slice(s, 0, i)>> \o Split(SliceFrom(s, i + 1), sep)

\* strings.Join(parts, sep)
RECURSIVE Join(_, _)
Join(parts, sep) ==
    IF parts = <<>> THEN <<>>
    ELSE IF Len(parts) = 1 THEN parts[1]
    ELSE parts[1] \o sep \o Join(Tail(parts), sep)

\* The 1-based position of the last character of the run of digits that
\* starts at position i of s; i - 1 when s holds no digit there.
RECURSIVE DigitRunEnd(_, _)
DigitRunEnd(s, i) ==
    IF i <= Len(s) /\ IsDigit(s[i]) THEN DigitRunEnd(s, i + 1) ELSE i - 1

\* The end of the part of s, from position i on, that matches
\* [0-9]+(\.[0-9]+)* ; 0 when s does not start with a digit.
RECURSIVE SegmentsEnd(_, _)
SegmentsEnd(s, i) ==
    LET e == DigitRunEnd(s, i)
    IN  IF e < i THEN 0
        ELSE IF e + 2 <= Len(s) /\ s[e + 1] = "." /\ IsDigit(s[e + 2])
             THEN SegmentsEnd(s, e + 2)
             ELSE e

\* A pre-release suffix: parts of word characters separated by dots, the
\* first part starting with a letter or "~".
IsPrerelease(s) ==
    /\ s # <<>>
    /\ ~IsDigit(s[1])
    /\ \A p \in 1..Len(Split(s, ".")) :
          LET part == Split(s, ".")[p]
          IN  part # <<>> /\ \A k \in 1..Len(part) : IsWord(part[k])

VersionError == [ok |-> FALSE, segments |-> <<>>, pre |-> <<>>, si |-> 0]

\* version.NewVersion: an optional "v", dotted numeric segments, an
\* optional pre-release; the segments are padded with zeros to three.
NewVersion(v) ==
    LET s == IF v # <<>> /\ Head(v) = "v" THEN Tail(v) ELSE v
        e == SegmentsEnd(s, 1)
        rest == SubSeq(s, e + 1, Len(s))
        segmentsStr == Split(SubSeq(s, 1, e), ".")
        parsed == [i \in 1..Len(segmentsStr) |-> ParseInt(segmentsStr[i])]
        padded == [i \in 1..(IF Len(parsed) < 3 THEN 3 ELSE Len(parsed)) |->
                      IF i <= Len(parsed) THEN parsed[i] ELSE 0]
    IN  IF e = 0 THEN VersionError
        ELSE IF rest # <<>> /\ ~IsPrerelease(rest) THEN VersionError
        ELSE [ok |-> TRUE, segments |-> padded, pre |-> rest,
              si |-> Len(segmentsStr)]

\* Version.String: the canonical form, rebuilt from the parsed segments.
VersionString(ver) ==
    Join([i \in 1..Len(ver.segments) |-> FormatInt(ver.segments[i])], <<".">>)
        \o (IF ver.pre # <<>> THEN <<"-">> \o ver.pre ELSE <<>>)

RECURSIVE allZero(_)
allZero(segs) == segs = <<>> \/ (Head(segs) = 0 /\ allZero(Tail(segs)))

\* The segment loop of Version.Compare, from 1-based position i.
RECURSIVE CompareSegments(_, _, _)
CompareSegments(self, other, i) ==
    LET hS == IF Len(self) < Len(other) THEN Len(other) ELSE Len(self)
    IN  IF i > hS THEN 0
        ELSE IF i > Len(self)
             THEN (IF ~allZero(SubSeq(other, i, Len(other))) THEN -1 ELSE 0)
        ELSE IF i > Len(other)
             THEN (IF ~allZero(SubSeq(self, i, Len(self))) THEN 1 ELSE 0)
        ELSE IF self[i] = other[i] THEN CompareSegments(self, other, i + 1)
        ELSE IF self[i] < other[i] THEN -1
        ELSE 1

\* Version.Compare, for versions of which at most one is a pre-release
\* (the constraint expressions of this model carry none).
Compare(v, other) ==
    IF v.segments = other.segments
    THEN IF v.pre = other.pre THEN 0
         ELSE IF v.pre = <<>> THEN 1
         ELSE -1
    ELSE CompareSegments(v.segments, other.segments, 1)

\* prereleaseCheck: a constraint without a pre-release admits no
\* pre-release version.
prereleaseCheck(v, c) ==
    IF c.pre # <<>> /\ v.pre # <<>> THEN c.segments = v.segments
    ELSE IF c.pre = <<>> /\ v.pre # <<>> THEN FALSE
    ELSE TRUE

constraintPessimistic(v, c) ==
    LET cs == Len(c.segments)
    IN  IF ~prereleaseCheck(v, c) \/ (c.pre # <<>> /\ v.pre = <<>>) THEN FALSE
        ELSE IF Compare(v, c) < 0 THEN FALSE
        ELSE IF cs > Len(v.segments) THEN FALSE
        ELSE IF \E i \in 1..(c.si - 1) : v.segments[i] # c.segments[i] THEN FALSE
        ELSE IF c.segments[cs] > v.segments[cs] THEN FALSE
        ELSE TRUE

\* Constraint.Check: the operator table constraintOperators.
ConstraintCheck(c, v) ==
    CASE c.op = <<>>         -> Compare(v, c.check) = 0
      [] c.op = <<"=">>      -> Compare(v, c.check) = 0
      [] c.op = <<"!","=">>  -> Compare(v, c.check) # 0
      [] c.op = <<">">>      -> prereleaseCheck(v, c.check) /\ Compare(v, c.check) = 1
      [] c.op = <<"<">>      -> prereleaseCheck(v, c.check) /\ Compare(v, c.check) = -1
      [] c.op = <<">","=">>  -> prereleaseCheck(v, c.check) /\ Compare(v, c.check) >= 0
      [] c.op = <<"<","=">>  -> prereleaseCheck(v, c.check) /\ Compare(v, c.check) <= 0
      [] c.op = <<"~",">">>  -> constraintPessimistic(v, c.check)

\* strings with the leading / trailing spaces removed (the \s* of the
\* constraint pattern).
RECURSIVE TrimLeft(_)
TrimLeft(s) == IF s # <<>> /\ Head(s) = " " THEN TrimLeft(Tail(s)) ELSE s

RECURSIVE TrimRight(_)
TrimRight(s) ==
    IF s # <<>> /\ s[Len(s)] = " " THEN TrimRight(SubSeq(s, 1, Len(s) - 1)) ELSE s

ConstraintOperators ==
    <<  <<">","=">>, <<"<","=">>, <<"!","=">>, <<"~",">">>,
        <<">">>, <<"<">>, <<"=">>, <<>>  >>

ConstraintError == [ok |-> FALSE, op |-> <<>>, check |-> VersionError]

\* parseSingle: \s*(operator)\s*(version)\s* , then NewVersion.
parseSingle(v) ==
    LET s == TrimLeft(v)
        k == CHOOSE i \in 1..Len(ConstraintOperators) :
                /\ HasPrefix(s, ConstraintOperators[i])
                /\ \A j \in 1..(i - 1) : ~HasPrefix(s, ConstraintOperators[j])
        operator == ConstraintOperators[k]
        check == NewVersion(TrimRight(TrimLeft(SliceFrom(s, Len(operator)))))
    IN  IF check.ok THEN [ok |-> TRUE, op |-> operator, check |-> check]
        ELSE ConstraintError

\* version.NewConstraint: the comma-separated parts, each through
\* parseSingle; <<>> stands for the error.
NewConstraint(v) ==
    LET vs == Split(v, ",")
        result == [i \in 1..Len(vs) |-> parseSingle(vs[i])]
    IN  IF \E i \in 1..Len(vs) : ~result[i].ok THEN <<>> ELSE result

\* Constraints.Check: every constraint of the list admits the version.
Check(constraints, ver) ==
    \A i \in 1..Len(constraints) : ConstraintCheck(constraints[i], ver)

(***************************************************************************)
(* versioning.go: If.                                                      *)
(***************************************************************************)

\* An If that lets a malformed constraint expression admit every version.
IfMalformedConstraintMatches(v, is) ==
    LET ver == NewVersion(v)
        constraints == NewConstraint(is)
    IN  IF ~ver.ok THEN FALSE
        ELSE IF constraints = <<>> THEN TRUE
        ELSE Check(constraints, ver)

\* If reports whether the version v matches the constraint expression is.
If(v, is) ==
    LET ver == NewVersion(v)
        constraints == NewConstraint(is)
    IN  IF ~ver.ok THEN FALSE
        ELSE IF constraints = <<>> THEN FALSE
        ELSE Check(constraints, ver)

\* Match reports whether the version of the request matches.
Match(req, expectedVersion) == If(GetVersion(req), expectedVersion)

(***************************************************************************)
(* Handlers and responses.  A handler is a record: a leaf that writes a    *)
(* status and a body (sendHandler of the tests, NotFoundHandler), the      *)
(* closure NewMatcher returns, or the closure Deprecated returns.  A       *)
(* response holds the header map (key -> list of values, as http.Header),  *)
(* the status (0 until written), the body written so far and the leaf      *)
(* handlers that ran, in order, each with the header map it found.         *)
(***************************************************************************)
HeaderKeys ==
    {"X-API-Version", "X-API-Warn", "X-API-Deprecation-Date", "X-API-Deprecation-Info"}

NewRecorder ==
    [header |-> [k \in HeaderKeys |-> <<>>], status |-> 0, body |-> <<>>,
     calls |-> <<>>]

\* w.Header().Set(key, value)
HeaderSet(rw, key, value) == [rw EXCEPT !.header[key] = <<value>>]

\* w.WriteHeader(code): the first status written stays.
WriteHeader(rw, code) == [rw EXCEPT !.status = IF @ = 0 THEN code ELSE @]

\* w.Write(data): an implicit WriteHeader(200), then the data.
Write(rw, data) == [WriteHeader(rw, 200) EXCEPT !.body = Append(@, data)]

\* A nil http.Handler.
NilHandler == [kind |-> "nil"]

\* A handler that writes the status (0: none explicitly) and the body.
Leaf(code, contents) == [kind |-> "leaf", status |-> code, contents |-> contents]

\* sendHandler of the tests.
sendHandler(contents) == Leaf(0, contents)

versionNotFoundText == "version not found"

\* NotFoundHandler, version.go lines 30-45: 501 and "version not found".
NotFoundHandler == Leaf(501, versionNotFoundText)

ServeLeaf(h, rw) ==
    LET w1 == IF h.status # 0 THEN WriteHeader(rw, h.status) ELSE rw
        w2 == Write(w1, h.contents)
    IN  [w2 EXCEPT !.calls = Append(@, [handler |-> h, header |-> rw.header])]

(***************************************************************************)
(* deprecation.go: DeprecationOptions and the time of DeprecationDate.  A  *)
(* time.Time is given by the clock reading in its own location and the     *)
(* offset of that location east of UTC in seconds.                         *)
(***************************************************************************)
ZeroTime ==
    [year |-> 1, month |-> 1, day |-> 1, hour |-> 0, minute |-> 0, second |-> 0,
     weekday |-> 1, offset |-> 0]

\* Time.IsZero: the instant January 1, year 1, 00:00:00 UTC.
IsZero(t) ==
    /\ t.year = 1 /\ t.month = 1 /\ t.day = 1
    /\ t.hour * 3600 + t.minute * 60 + t.second = t.offset

shortDayNames ==
    << <<"S","u","n">>, <<"M","o","n">>, <<"T","u","e">>, <<"W","e","d">>,
       <<"T","h","u">>, <<"F","r","i">>, <<"S","a","t">> >>

shortMonthNames ==
    << <<"J","a","n">>, <<"F","e","b">>, <<"M","a","r">>, <<"A","p","r">>,
       <<"M","a","y">>, <<"J","u","n">>, <<"J","u","l">>, <<"A","u","g">>,
       <<"S","e","p">>, <<"O","c","t">>, <<"N","o","v">>, <<"D","e","c">> >>

\* The decimal digits of n, padded with zeros to the given width.
RECURSIVE Pad(_, _)
Pad(n, width) ==
    IF width = 0 THEN <<>> ELSE Pad(n \div 10, width - 1) \o <<Digits[(n % 10) + 1]>>

\* t.Format(HeaderTimeFormat) with HeaderTimeFormat =
\* "Mon, 02 Jan 2006 15:04:05 GMT": the clock reading of t in its own
\* location, followed by the literal "GMT".
FormatHeaderTime(t) ==
    shortDayNames[t.weekday + 1] \o <<",", " ">> \o Pad(t.day, 2) \o <<" ">>
        \o shortMonthNames[t.month] \o <<" ">> \o Pad(t.year, 4) \o <<" ">>
        \o Pad(t.hour, 2) \o <<":">> \o Pad(t.minute, 2) \o <<":">> \o Pad(t.second, 2)
        \o <<" ", "G", "M", "T">>

\* The zero value of DeprecationOptions.
NoDeprecation == [WarnMessage |-> "", DeprecationDate |-> ZeroTime, DeprecationInfo |-> ""]

\* DeprecationOptions.ShouldHandle
ShouldHandle(opts) ==
    opts.WarnMessage # "" \/ ~IsZero(opts.DeprecationDate) \/ opts.DeprecationInfo # ""

DefaultDeprecationOptions ==
    [WarnMessage |-> "WARNING! You are using a deprecated version of this API.",
     DeprecationDate |-> ZeroTime, DeprecationInfo |-> ""]

\* Deprecated, deprecation.go lines 35-53: the closure over the handler
\* and the options, the warning message defaulted when empty.
Deprecated(handler, options) ==
    [kind |-> "Deprecated",
     options |-> IF options.WarnMessage = ""
                 THEN [options EXCEPT !.WarnMessage = DefaultDeprecationOptions.WarnMessage]
                 ELSE options,
     handler |-> handler]

(***************************************************************************)
(* versioning.go: buildConstraints and NewMatcher.  A Map is a function    *)
(* from its keys to handlers; Go ranges over it in an order of its own     *)
(* choosing, given here as the sequence "order" of the keys.               *)
(***************************************************************************)
Panic == [kind |-> "panic"]

NoMatcher == [kind |-> "none"]

\* The keys of "order" that are not the NotFound key, in order.
ConstraintKeys(order) == SelectSeq(order, LAMBDA k : k # NotFound)

\* A buildConstraints that skips a malformed key instead of panicking.
buildConstraintsSkipMalformed(versionsHandler, order) ==
    LET keys == SelectSeq(ConstraintKeys(order), LAMBDA k : NewConstraint(k) # <<>>)
        notfound == IF NotFound \in DOMAIN versionsHandler
                    THEN versionsHandler[NotFound] ELSE NilHandler
    IN  [kind |-> "built",
         constraintsHandlers |->
             [i \in 1..Len(keys) |->
                 [constraints |-> NewConstraint(keys[i]),
                  handler |-> versionsHandler[keys[i]]]],
         notfoundHandler |->
             IF notfound = NilHandler THEN NotFoundHandler ELSE notfound]

\* buildConstraints, versioning.go lines 76-99: a panic when a key other
\* than NotFound is no constraint, else the (constraints, handler) pairs in
\* iteration order and the NotFound handler, the default one when the Map
\* names none.
buildConstraints(versionsHandler, order) ==
    LET keys == ConstraintKeys(order)
        notfound == IF NotFound \in DOMAIN versionsHandler
                    THEN versionsHandler[NotFound] ELSE NilHandler
    IN  IF \E i \in 1..Len(keys) : NewConstraint(keys[i]) = <<>> THEN Panic
        ELSE [kind |-> "built",
              constraintsHandlers |->
                  [i \in 1..Len(keys) |->
                      [constraints |-> NewConstraint(keys[i]),
                       handler |-> versionsHandler[keys[i]]]],
              notfoundHandler |->
                  IF notfound = NilHandler THEN NotFoundHandler ELSE notfound]

\* NewMatcher, versioning.go lines 40-69: the panic of buildConstraints, or
\* the handler that closes over its two results.
NewMatcher(versionsHandler, order) ==
    LET built == buildConstraints(versionsHandler, order)
    IN  IF built = Panic THEN Panic
        ELSE [kind |-> "Matcher",
              constraintsHandlers |-> built.constraintsHandlers,
              notFoundHandler |-> built.notfoundHandler]

RECURSIVE ServeHTTP(_, _, _)

\* The index of the first pair whose constraints admit ver, 0 if none.
FirstMatch(constraintsHandlers, ver) ==
    LET hits == {i \in 1..Len(constraintsHandlers) :
                    Check(constraintsHandlers[i].constraints, ver)}
    IN  IF hits = {} THEN 0 ELSE CHOOSE i \in hits : \A j \in hits : i <= j

\* A matcher that does not return after the matched handler has run.
MatcherServeHTTPNoReturn(m, rw, req) ==
    LET versionString == GetVersion(req)
        ver == NewVersion(versionString)
        i == FirstMatch(m.constraintsHandlers, ver)
    IN  IF versionString = NotFound THEN ServeHTTP(m.notFoundHandler, rw, req)
        ELSE IF ~ver.ok THEN ServeHTTP(m.notFoundHandler, rw, req)
        ELSE IF i # 0
             THEN ServeHTTP(m.notFoundHandler,
                      ServeHTTP(m.constraintsHandlers[i].handler,
                          HeaderSet(rw, "X-API-Version", VersionString(ver)), req),
                      req)
        ELSE ServeHTTP(m.notFoundHandler, rw, req)

\* A matcher that sets X-API-Version as soon as the version has parsed.
MatcherServeHTTPHeaderFirst(m, rw, req) ==
    LET versionString == GetVersion(req)
        ver == NewVersion(versionString)
        i == FirstMatch(m.constraintsHandlers, ver)
        w1 == HeaderSet(rw, "X-API-Version", VersionString(ver))
    IN  IF versionString = NotFound THEN ServeHTTP(m.notFoundHandler, rw, req)
        ELSE IF ~ver.ok THEN ServeHTTP(m.notFoundHandler, rw, req)
        ELSE IF i # 0 THEN ServeHTTP(m.constraintsHandlers[i].handler, w1, req)
        ELSE ServeHTTP(m.notFoundHandler, w1, req)

\* A matcher that advertises the version string as the request gave it.
MatcherServeHTTPRawVersion(m, rw, req) ==
    LET versionString == GetVersion(req)
        ver == NewVersion(versionString)
        i == FirstMatch(m.constraintsHandlers, ver)
    IN  IF versionString = NotFound THEN ServeHTTP(m.notFoundHandler, rw, req)
        ELSE IF ~ver.ok THEN ServeHTTP(m.notFoundHandler, rw, req)
        ELSE IF i # 0
             THEN ServeHTTP(m.constraintsHandlers[i].handler,
                      HeaderSet(rw, "X-API-Version", versionString), req)
        ELSE ServeHTTP(m.notFoundHandler, rw, req)

\* The handler NewMatcher returns, versioning.go lines 43-68.
MatcherServeHTTP(m, rw, req) ==
    LET versionString == GetVersion(req)
        ver == NewVersion(versionString)
        i == FirstMatch(m.constraintsHandlers, ver)
    IN  IF versionString = NotFound THEN ServeHTTP(m.notFoundHandler, rw, req)
        ELSE IF ~ver.ok THEN ServeHTTP(m.notFoundHandler, rw, req)
        ELSE IF i # 0
             THEN ServeHTTP(m.constraintsHandlers[i].handler,
                      HeaderSet(rw, "X-API-Version", VersionString(ver)), req)
        ELSE ServeHTTP(m.notFoundHandler, rw, req)

\* A deprecation wrapper that sets its headers after the wrapped handler
\* has run.
DeprecatedServeHTTPHeadersLast(d, rw, req) ==
    LET w0 == ServeHTTP(d.handler, rw, req)
        w1 == HeaderSet(w0, "X-API-Warn", d.options.WarnMessage)
        w2 == IF ~IsZero(d.options.DeprecationDate)
              THEN HeaderSet(w1, "X-API-Deprecation-Date",
                       FormatHeaderTime(d.options.DeprecationDate))
              ELSE w1
    IN  IF d.options.DeprecationInfo # ""
        THEN HeaderSet(w2, "X-API-Deprecation-Info", d.options.DeprecationInfo)
        ELSE w2

\* A wrapper that appends its headers to the values already present.
DeprecatedServeHTTPAddsHeaders(d, rw, req) ==
    LET Add(x, key, value) == [x EXCEPT !.header[key] = Append(@, value)]
        w1 == Add(rw, "X-API-Warn", d.options.WarnMessage)
        w2 == IF ~IsZero(d.options.DeprecationDate)
              THEN Add(w1, "X-API-Deprecation-Date",
                       FormatHeaderTime(d.options.DeprecationDate))
              ELSE w1
        w3 == IF d.options.DeprecationInfo # ""
              THEN Add(w2, "X-API-Deprecation-Info", d.options.DeprecationInfo)
              ELSE w2
    IN  ServeHTTP(d.handler, w3, req)

\* The handler Deprecated returns, deprecation.go lines 40-52.
DeprecatedServeHTTP(d, rw, req) ==
    LET w1 == HeaderSet(rw, "X-API-Warn", d.options.WarnMessage)
        w2 == IF ~IsZero(d.options.DeprecationDate)
              THEN HeaderSet(w1, "X-API-Deprecation-Date",
                       FormatHeaderTime(d.options.DeprecationDate))
              ELSE w1
        w3 == IF d.options.DeprecationInfo # ""
              THEN HeaderSet(w2, "X-API-Deprecation-Info", d.options.DeprecationInfo)
              ELSE w2
    IN  ServeHTTP(d.handler, w3, req)

\* handler.ServeHTTP(w, r), by the kind of the handler.
ServeHTTP(h, rw, req) ==
    CASE h.kind = "leaf"       -> ServeLeaf(h, rw)
      [] h.kind = "Matcher"    -> MatcherServeHTTP(h, rw, req)
      [] h.kind = "Deprecated" -> DeprecatedServeHTTP(h, rw, req)

(***************************************************************************)
(* One run of the handler NewMatcher returns, versioning.go lines 43-68,   *)
(* cut at the points where it reads the constraintsHandlers and the        *)
(* notFoundHandler that NewMatcher captured, which every run of the        *)
(* handler shares.  A run has its own request, writer, parsed version and  *)
(* loop index.                                                             *)
(***************************************************************************)

\* No run: the goroutine is outside the handler.  n counts the runs it began.
NoRun ==
    [pc |-> "idle", req |-> [ctx |-> CtxNil, AcceptVersion |-> <<>>, Accept |-> <<>>],
     ver |-> VersionError, i |-> 0, w |-> NewRecorder, n |-> 0]

\* The handler is entered with the request and a writer of its own, line 43.
EnterServeHTTP(q, req) ==
    [NoRun EXCEPT !.pc = "GetVersion", !.req = req, !.n = q.n + 1]

\* Lines 44-54: the version of the request is resolved and parsed; the
\* NotFound handler runs when there is none or it does not parse.
ResolveStep(m, q) ==
    LET versionString == GetVersion(q.req)
        ver == NewVersion(versionString)
    IN  IF versionString = NotFound \/ ~ver.ok
        THEN [q EXCEPT !.pc = "done",
                       !.w = ServeHTTP(m.notFoundHandler, q.w, q.req)]
        ELSE [q EXCEPT !.pc = "range", !.ver = ver, !.i = 1]

\* Lines 56-67: one iteration of the range over constraintsHandlers, or the
\* NotFound handler once the range is over.
RangeStep(m, q) ==
    IF q.i > Len(m.constraintsHandlers)
    THEN [q EXCEPT !.pc = "done", !.i = 0, !.ver = VersionError,
                   !.w = ServeHTTP(m.notFoundHandler, q.w, q.req)]
    ELSE IF Check(m.constraintsHandlers[q.i].constraints, q.ver)
    THEN [q EXCEPT !.pc = "done", !.i = 0, !.ver = VersionError,
                   !.w = ServeHTTP(m.constraintsHandlers[q.i].handler,
                             HeaderSet(q.w, "X-API-Version", VersionString(q.ver)),
                             q.req)]
    ELSE [q EXCEPT !.i = q.i + 1]

\* A handler that moves the pair it matched to the front of the captured
\* constraintsHandlers.
CapturedAfterStepMoveToFront(m, q) ==
    IF /\ q.pc = "range"
       /\ q.i \in 2..Len(m.constraintsHandlers)
       /\ Check(m.constraintsHandlers[q.i].constraints, q.ver)
    THEN [m EXCEPT !.constraintsHandlers =
             [j \in 1..Len(m.constraintsHandlers) |->
                 IF j = 1 THEN m.constraintsHandlers[q.i]
                 ELSE IF j <= q.i THEN m.constraintsHandlers[j - 1]
                 ELSE m.constraintsHandlers[j]]]
    ELSE m

\* What a step of the handler leaves of the captured constraintsHandlers and
\* notFoundHandler: lines 43-68 read them (lines 46, 52, 56, 57, 59, 67) and
\* assign to neither, and buildConstraints has returned.
CapturedAfterStep(m, q) == m

(***************************************************************************)
(* group.go: Group.  routes maps a path to a Map, version -> handler.      *)
(***************************************************************************)

\* NewGroup, group.go lines 17-22.
NewGroup(ver) == [version |-> ver, routes |-> <<>>, deprecation |-> NoDeprecation]

\* m[key] = h on a Go map.
MapSet(m, key, h) ==
    [k \in DOMAIN m \cup {key} |-> IF k = key THEN h ELSE m[k]]

\* m[key] on a Go map of handlers: nil when the key is absent.
MapGet(m, key) == IF key \in DOMAIN m THEN m[key] ELSE NilHandler

\* Group.Deprecated, group.go lines 28-38: wraps the handler of every
\* route registered so far and stores the options.
GroupDeprecated(g, options) ==
    [g EXCEPT
        !.routes = [p \in DOMAIN g.routes |->
                       MapSet(g.routes[p], g.version,
                              Deprecated(MapGet(g.routes[p], g.version), options))],
        !.deprecation = options]

\* A registration that replaces the handler of a path already present.
addVRouteOverwrite(g, p, h) ==
    [g EXCEPT !.routes = MapSet(g.routes, p, MapSet(<<>>, g.version, h))]

\* Group.addVRoute, group.go lines 40-44: only a path not yet present.
addVRoute(g, p, h) ==
    IF p \notin DOMAIN g.routes
    THEN [g EXCEPT !.routes = MapSet(g.routes, p, MapSet(<<>>, g.version, h))]
    ELSE g

\* Group.Handle, group.go lines 51-57.
Handle(g, p, h) ==
    addVRoute(g, p, IF ShouldHandle(g.deprecation) THEN Deprecated(h, g.deprecation) ELSE h)

\* Group.HandleFunc, group.go lines 64-72, handlerFn being the function
\* of the leaf handler h.
HandleFunc(g, p, h) ==
    addVRoute(g, p, IF ShouldHandle(g.deprecation) THEN Deprecated(h, g.deprecation) ELSE h)

\* The paths of the route tables of the groups of "list".
GroupPaths(gs, list) == UNION {DOMAIN gs[list[i]].routes : i \in 1..Len(list)}

\* The group of "list" a path is first found in.
FirstGroupWith(gs, list, p) ==
    list[CHOOSE i \in 1..Len(list) :
            /\ p \in DOMAIN gs[list[i]].routes
            /\ \A j \in 1..(i - 1) : p \notin DOMAIN gs[list[j]].routes]

\* RegisterGroups, group.go lines 87-97, for one path: total[path] when the
\* first loop is over.  The entry is the Map of the first group that has
\* the path, itself and not a copy, and every later group that has the path
\* writes its handler into it under its version, the last one of a version
\* last; the first group coming again reads what it writes.
MergeVersions(gs, list, p) ==
    LET first == FirstGroupWith(gs, list, p)
        writers == {j \in 1..Len(list) :
                       /\ list[j] # first
                       /\ p \in DOMAIN gs[list[j]].routes
                       /\ \E i \in 1..(j - 1) : list[i] = first}
        written == {gs[list[j]].version : j \in writers}
        LastWriter(k) == CHOOSE j \in writers :
                             /\ gs[list[j]].version = k
                             /\ \A i \in writers : gs[list[i]].version = k => i <= j
    IN  [k \in DOMAIN gs[first].routes[p] \cup written |->
            IF k \in written
            THEN MapGet(gs[list[LastWriter(k)]].routes[p], k)
            ELSE gs[first].routes[p][k]]

\* RegisterGroups, group.go lines 99-102: the Map of a path with the
\* fallback handler written into it when one is given.
TotalVersions(gs, notFoundHandler, list, p) ==
    LET total == MergeVersions(gs, list, p)
    IN  IF notFoundHandler # NilHandler
        THEN MapSet(total, NotFound, notFoundHandler)
        ELSE total

\* RegisterGroups, group.go lines 83-111: the map of matchers it returns.
\* orders[path] is the order in which NewMatcher ranges over the Map of
\* the path; a panic of NewMatcher is a panic of RegisterGroups.
RegisterGroups(gs, notFoundHandler, list, orders) ==
    IF \E p \in GroupPaths(gs, list) :
          NewMatcher(TotalVersions(gs, notFoundHandler, list, p), orders[p]) = Panic
    THEN Panic
    ELSE [p \in GroupPaths(gs, list) |->
             NewMatcher(TotalVersions(gs, notFoundHandler, list, p), orders[p])]

\* RegisterGroups, group.go lines 87-102: the groups when it has returned.
\* The Map total[path] being the Map of the group the path was first found
\* in, that group's route table holds what was written into total[path].
RegisterGroupsWrites(gs, notFoundHandler, list) ==
    [g \in DOMAIN gs |->
        [gs[g] EXCEPT !.routes =
            [p \in DOMAIN gs[g].routes |->
                IF p \in GroupPaths(gs, list) /\ FirstGroupWith(gs, list, p) = g
                THEN TotalVersions(gs, notFoundHandler, list, p)
                ELSE gs[g].routes[p]]]]

(***************************************************************************)
(* Bounded input domains.  Header values are built by concatenating at     *)
(* most MaxTokens tokens, so that every relative position of "version",    *)
(* "=", " " and ";" occurs; the header values of TestGetVersion and of the *)
(* documentation are added as they are.                                    *)
(***************************************************************************)
MaxTokens == 4

RECURSIVE Flatten(_)
Flatten(ts) == IF ts = <<>> THEN <<>> ELSE Head(ts) \o Flatten(Tail(ts))

\* All concatenations of at most n tokens of the set T.
Concats(T, n) == {Flatten(ts) : ts \in UNION {[1..k -> T] : k \in 0..n}}

AcceptTokens ==
    {AcceptHeaderVersionValue, <<"=">>, <<" ">>, <<";">>, <<"1">>, <<"2",".","5">>}

tApplicationJson ==
    <<"a","p","p","l","i","c","a","t","i","o","n","/","j","s","o","n">>

tOther == <<"o","t","h","e","r">>

\* "application/json; version=2.5"
AcceptDoc1 ==
    tApplicationJson \o <<";"," ">> \o AcceptHeaderVersionValue \o <<"=","2",".","5">>

\* "application/json; version=2.5 ;other=x"
AcceptDoc2 == AcceptDoc1 \o <<" ",";">> \o tOther \o <<"=","x">>

\* "application/json; version= ;other=x"
AcceptDoc3 ==
    tApplicationJson \o <<";"," ">> \o AcceptHeaderVersionValue \o <<"="," ",";">>
        \o tOther \o <<"=","x">>

AcceptValues == Concats(AcceptTokens, MaxTokens) \cup {AcceptDoc1, AcceptDoc2, AcceptDoc3}

AcceptVersionValues == {<<>>, <<"1",".","0">>}

CtxValues ==
    {CtxNil, CtxOther, WithVersion(<<>>), WithVersion(<<"1","1",".","0",".","5">>)}

Requests ==
    [ctx : CtxValues, AcceptVersion : AcceptVersionValues, Accept : AcceptValues]

EmptyRequest == [ctx |-> CtxNil, AcceptVersion |-> <<>>, Accept |-> <<>>]

\* Version strings: short concatenations of digits and dots, and the
\* strings of the tests and the documentation.
MaxVersionTokens == 3

VersionTokens == {<<"1">>, <<"2">>, <<"0">>, <<".">>}

VersionStrings ==
    Concats(VersionTokens, MaxVersionTokens) \cup
        { <<"1",".","2",".","3">>, <<"2",".","9",".","9">>,
          <<"1","1",".","0",".","5">>, <<"v","1",".","0">>, <<"1","x">>,
          <<"1",".","0"," ">>, <<"1",".","0",".","0",".","1">>, NotFound }

\* Constraint expressions: short concatenations of operators, digits,
\* commas and spaces, and the expressions of the tests and the
\* documentation, one per operator.
MaxConstraintTokens == 3

ConstraintTokens == {<<">","=">>, <<"<">>, <<"1">>, <<"2">>, <<",">>, <<" ">>}

cGe1 == <<">","=","1">>

cGt12 == <<">"," ","1",".","2">>

cGe2Lt3 == <<">","="," ","2",","," ","<"," ","3">>

cGe1Lt2 == <<">","="," ","1",","," ","<"," ","2">>

c10 == <<"1",".","0">>

ConstraintStrings ==
    Concats(ConstraintTokens, MaxConstraintTokens) \cup
        { cGe1, cGt12, cGe2Lt3, cGe1Lt2, c10,
          <<"~",">"," ","1",".","2">>, <<"!","="," ","2">>, <<"="," ","2",".","0">>,
          <<"<","="," ","1",".","2">>, <<"^","1",".","0">>, <<">","=","1",",">>,
          NotFound }

(***************************************************************************)
(* The Maps handed to NewMatcher: every subset of a few keys (the two of   *)
(* TestNewMatcher, one that overlaps both, a malformed one and NotFound),  *)
(* the constraint keys bound to one of two handlers, the NotFound key to   *)
(* the handler of the tests or to nil.                                     *)
(***************************************************************************)
v10Response == "v1.0 handler"

v2Response == "v2.x handler"

H1 == sendHandler(v10Response)

H2 == sendHandler(v2Response)

\* notFoundHandler of the tests: http.Error(w, "Not Found", 404).
notFoundHandler == Leaf(404, "Not Found\n")

cMalformed == <<"^","1",".","0">>

MapKeys == {c10, cGe2Lt3, cGe1, cMalformed, NotFound}

Maps ==
    UNION {{f \in [K -> {H1, H2, notFoundHandler, NilHandler}] :
               \A k \in K : IF k = NotFound
                            THEN f[k] \in {notFoundHandler, NilHandler}
                            ELSE f[k] \in {H1, H2}} : K \in SUBSET MapKeys}

\* All sequences that hold every element of the set S once.
RECURSIVE Enumerations(_)
Enumerations(S) ==
    IF S = {} THEN {<<>>}
    ELSE UNION {{<<x>> \o p : p \in Enumerations(S \ {x})} : x \in S}

\* The orders in which a range over the Map m can visit its keys.
Orders(m) == Enumerations(DOMAIN m)

\* The Map of TestNewMatcher without its NotFound entry.
TestMap == [k \in {c10, cGe2Lt3} |-> IF k = c10 THEN H1 ELSE H2]

\* A request that carries only an Accept-Version header.
WithAcceptVersion(av) == [ctx |-> CtxNil, AcceptVersion |-> av, Accept |-> <<>>]

\* A request that carries only an Accept header.
WithAccept(a) == [ctx |-> CtxNil, AcceptVersion |-> <<>>, Accept |-> a]

\* The requests served by a matcher: no version at all, versions that
\* match one key, several keys or none, strings that are no version, and
\* an override on top of a header.
MatcherRequests ==
    { EmptyRequest,
      WithAcceptVersion(<<"1",".","0">>),
      WithAcceptVersion(<<"1">>),
      WithAcceptVersion(<<"v","0","1",".","0">>),
      WithAcceptVersion(<<"2",".","1">>),
      WithAcceptVersion(<<"3",".","0">>),
      WithAcceptVersion(<<"1",".","0"," ">>),
      WithAcceptVersion(NotFound),
      WithAccept(AcceptDoc1),
      WithAccept(AcceptDoc3),
      [ctx |-> WithVersion(<<>>), AcceptVersion |-> <<"1",".","0">>, Accept |-> <<>>],
      [ctx |-> WithVersion(<<"2",".","5">>), AcceptVersion |-> <<"1",".","0">>,
       Accept |-> <<>>],
      [ctx |-> WithVersion(NotFound), AcceptVersion |-> <<"1",".","0">>,
       Accept |-> AcceptDoc1] }

(***************************************************************************)
(* Deprecation options: each field empty or set; the date is unset, a UTC  *)
(* time or a time in a zone two hours east of UTC.                         *)
(***************************************************************************)

\* Wed, 2 Jan 2019 15:04:05 UTC
TimeUTC ==
    [year |-> 2019, month |-> 1, day |-> 2, hour |-> 15, minute |-> 4, second |-> 5,
     weekday |-> 3, offset |-> 0]

\* The same instant on a clock two hours east of UTC.
TimeEast == [TimeUTC EXCEPT !.hour = 17, !.offset = 7200]

testWarnMessage == "deprecated, see <this link>"

testDeprecationInfo ==
    "a bigger version is available, see <this link> for more information"

Options ==
    [WarnMessage : {"", testWarnMessage},
     DeprecationDate : {ZeroTime, TimeUTC, TimeEast},
     DeprecationInfo : {"", testDeprecationInfo}]

\* The options of TestDeprecated.
TestOptions ==
    [WarnMessage |-> testWarnMessage, DeprecationDate |-> TimeUTC,
     DeprecationInfo |-> testDeprecationInfo]

\* The number of times a handler is wrapped by Deprecated.
MaxWraps == 2

\* Groups, the calls made on them and their arguments.
GroupNames == {"userAPIV1"}

GroupOptions ==
    { NoDeprecation, DefaultDeprecationOptions, TestOptions,
      [NoDeprecation EXCEPT !.DeprecationInfo = testDeprecationInfo] }

Paths == {"/", "/other"}

MaxCalls == 3

\* The groups given to RegisterGroups: the two of TestNewGroup and a
\* third one, the handler each of them registers, and the arguments of
\* RegisterGroups.
RegisterGroupNames == {"userAPIV1", "userAPIV2", "userAPIV3"}

c30 == <<"3",".","0">>

H3 == sendHandler("v3.x handler")

GroupHandler(g) ==
    CASE g = "userAPIV1" -> H1
      [] g = "userAPIV2" -> H2
      [] g = "userAPIV3" -> H3

DeprecatedGroupNames == {"userAPIV1"}

\* The routes the groups register: one path in all groups, one in the
\* first group only.
GroupRoutes ==
    { <<"userAPIV1", "/">>, <<"userAPIV1", "/other">>, <<"userAPIV2", "/">>,
      <<"userAPIV3", "/">> }

\* The versions of the groups: those of TestNewGroup, or the same version
\* for the first two groups; the third group has version 3.0.
GroupVersions ==
    { [g \in RegisterGroupNames |->
          CASE g = "userAPIV1" -> c10 [] g = "userAPIV2" -> cGe2Lt3 [] OTHER -> c30],
      [g \in RegisterGroupNames |->
          CASE g = "userAPIV1" -> c10 [] g = "userAPIV2" -> c10 [] OTHER -> c30] }

GroupLists ==
    { <<"userAPIV1">>, <<"userAPIV1", "userAPIV2">>, <<"userAPIV2", "userAPIV1">>,
      <<"userAPIV1", "userAPIV2", "userAPIV3">> }

RegisterRequests ==
    { WithAcceptVersion(<<"1",".","0">>), WithAcceptVersion(<<"2",".","1">>),
      WithAcceptVersion(<<"3",".","0">>) }

\* The number of calls of RegisterGroups.
MaxRegisters == 2

(***************************************************************************)
(* Goroutines serving requests on one matcher at the same time.  The Maps  *)
(* hold constraints that overlap: 1.0 satisfies "1.0" and ">=1", 2.1       *)
(* satisfies ">=1" and ">= 2, < 3".                                        *)
(***************************************************************************)

\* The number of goroutines.
MaxProcs == 2

Procs == 1..MaxProcs

\* The number of requests one goroutine serves, one after the other.
MaxRuns == 2

SharedMaps ==
    { [k \in {c10, cGe1} |-> IF k = c10 THEN H1 ELSE H2],
      [k \in {c10, cGe1, cGe2Lt3, NotFound} |->
          IF k = c10 THEN H1
          ELSE IF k = cGe1 THEN H2
          ELSE IF k = cGe2Lt3 THEN H3
          ELSE notFoundHandler] }

\* Versions 1.0 and 2.1, no version at all, and a string that is no version.
SharedRequests ==
    { WithAcceptVersion(<<"1",".","0">>), WithAcceptVersion(<<"2",".","1">>),
      EmptyRequest, WithAcceptVersion(<<"1",".","0"," ">>) }

(***************************************************************************)
(* SpecVersion: a request is drawn from the domain and GetVersion is       *)
(* applied to it.                                                          *)
(***************************************************************************)
IdleIf == ifVersion = <<>> /\ ifIs = <<>> /\ ifResult = <<>>

IdleMatcher == versions = <<>> /\ matcher = NoMatcher /\ w = NewRecorder

IdleDeprecated == wrapped = NilHandler /\ wraps = <<>>

IdleGroup == groups = <<>> /\ log = <<>> /\ served = <<>>

IdleRegister == registered = <<>> /\ routes = <<>> /\ mux = <<>>

IdleInflight == inflight = <<>>

InitVersion ==
    /\ r \in Requests
    /\ version = <<>>
    /\ op = "init"
    /\ IdleRegister
    /\ IdleInflight
    /\ IdleIf
    /\ IdleMatcher
    /\ IdleDeprecated
    /\ IdleGroup

CallGetVersion ==
    /\ op = "init"
    /\ version' = <<GetVersion(r)>>
    /\ op' = "GetVersion"
    /\ UNCHANGED <<r, ifVersion, ifIs, ifResult, versions, matcher, w, wrapped, wraps,
                   groups, log, served,
                   registered, routes, mux, inflight>>

NextVersion == CallGetVersion

SpecVersion == InitVersion /\ [][NextVersion]_vars

(***************************************************************************)
(* SpecIf: a version string and a constraint expression are drawn from     *)
(* the domains and If is applied to them.                                  *)
(***************************************************************************)
IdleVersion == r = EmptyRequest /\ version = <<>>

InitIf ==
    /\ ifVersion \in VersionStrings
    /\ ifIs \in ConstraintStrings
    /\ ifResult = <<>>
    /\ op = "init"
    /\ IdleRegister
    /\ IdleInflight
    /\ IdleVersion
    /\ IdleMatcher
    /\ IdleDeprecated
    /\ IdleGroup

CallIf ==
    /\ op = "init"
    /\ ifResult' = <<If(ifVersion, ifIs)>>
    /\ op' = "If"
    /\ UNCHANGED <<r, version, ifVersion, ifIs, versions, matcher, w, wrapped, wraps,
                   groups, log, served,
                   registered, routes, mux, inflight>>

NextIf == CallIf

SpecIf == InitIf /\ [][NextIf]_vars

(***************************************************************************)
(* SpecMatcher: a Map and a request are drawn from the domains; NewMatcher *)
(* builds the matcher (or panics) and the matcher serves the request.      *)
(***************************************************************************)
InitMatcher ==
    /\ versions \in Maps
    /\ r \in MatcherRequests
    /\ matcher = NoMatcher
    /\ w = NewRecorder
    /\ version = <<>>
    /\ op = "init"
    /\ IdleRegister
    /\ IdleInflight
    /\ IdleIf
    /\ IdleDeprecated
    /\ IdleGroup

CallNewMatcher ==
    /\ op = "init"
    /\ \E order \in Orders(versions) : matcher' = NewMatcher(versions, order)
    /\ op' = "NewMatcher"
    /\ UNCHANGED <<r, version, ifVersion, ifIs, ifResult, versions, w, wrapped, wraps,
                   groups, log, served,
                   registered, routes, mux, inflight>>

CallServeHTTP ==
    /\ op = "NewMatcher"
    /\ matcher.kind = "Matcher"
    /\ w' = ServeHTTP(matcher, NewRecorder, r)
    /\ op' = "ServeHTTP"
    /\ UNCHANGED <<r, version, ifVersion, ifIs, ifResult, versions, matcher, wrapped,
                   wraps, groups, log, served,
                   registered, routes, mux, inflight>>

NextMatcher == CallNewMatcher \/ CallServeHTTP

SpecMatcher == InitMatcher /\ [][NextMatcher]_vars

(***************************************************************************)
(* SpecDeprecated: a handler is wrapped by Deprecated, up to MaxWraps      *)
(* times, and the result serves a request.                                 *)
(***************************************************************************)
InitDeprecated ==
    /\ wrapped \in {H1, NotFoundHandler}
    /\ wraps = <<>>
    /\ r = WithAcceptVersion(<<"1",".","0">>)
    /\ w = NewRecorder
    /\ version = <<>>
    /\ versions = <<>>
    /\ matcher = NoMatcher
    /\ op = "init"
    /\ IdleRegister
    /\ IdleInflight
    /\ IdleIf
    /\ IdleGroup

CallDeprecated ==
    /\ op \in {"init", "Deprecated"}
    /\ Len(wraps) < MaxWraps
    /\ \E options \in Options :
          /\ wrapped' = Deprecated(wrapped, options)
          /\ wraps' = Append(wraps, options)
    /\ op' = "Deprecated"
    /\ UNCHANGED <<r, version, ifVersion, ifIs, ifResult, versions, matcher, w,
                   groups, log, served,
                   registered, routes, mux, inflight>>

CallServeDeprecated ==
    /\ op = "Deprecated"
    /\ w' = ServeHTTP(wrapped, NewRecorder, r)
    /\ op' = "ServeDeprecated"
    /\ UNCHANGED <<r, version, ifVersion, ifIs, ifResult, versions, matcher, wrapped,
                   wraps, groups, log, served,
                   registered, routes, mux, inflight>>

NextDeprecated == CallDeprecated \/ CallServeDeprecated

SpecDeprecated == InitDeprecated /\ [][NextDeprecated]_vars

(***************************************************************************)
(* SpecGroup: Deprecated, Handle and HandleFunc are called on a group, at  *)
(* most MaxCalls times in any order, and a route of the group is served.   *)
(***************************************************************************)
InitGroup ==
    /\ groups = [g \in GroupNames |-> NewGroup(c10)]
    /\ log = <<>>
    /\ served = <<>>
    /\ r = WithAcceptVersion(<<"1",".","0">>)
    /\ w = NewRecorder
    /\ version = <<>>
    /\ versions = <<>>
    /\ matcher = NoMatcher
    /\ op = "init"
    /\ IdleRegister
    /\ IdleInflight
    /\ IdleIf
    /\ IdleDeprecated

GroupCall(name, g, options, p, h) ==
    [call |-> name, group |-> g, options |-> options, path |-> p, handler |-> h]

CallGroupDeprecated ==
    /\ op # "ServeRoute"
    /\ Len(log) < MaxCalls
    /\ \E g \in GroupNames, options \in GroupOptions :
          /\ groups' = [groups EXCEPT ![g] = GroupDeprecated(@, options)]
          /\ log' = Append(log, GroupCall("Deprecated", g, options, "", NilHandler))
    /\ op' = "Deprecated"
    /\ UNCHANGED <<r, version, ifVersion, ifIs, ifResult, versions, matcher, w,
                   wrapped, wraps, served,
                   registered, routes, mux, inflight>>

CallHandle ==
    /\ op # "ServeRoute"
    /\ Len(log) < MaxCalls
    /\ \E g \in GroupNames, p \in Paths, h \in {H1, H2} :
          /\ groups' = [groups EXCEPT ![g] = Handle(@, p, h)]
          /\ log' = Append(log, GroupCall("Handle", g, NoDeprecation, p, h))
    /\ op' = "Handle"
    /\ UNCHANGED <<r, version, ifVersion, ifIs, ifResult, versions, matcher, w,
                   wrapped, wraps, served,
                   registered, routes, mux, inflight>>

CallHandleFunc ==
    /\ op # "ServeRoute"
    /\ Len(log) < MaxCalls
    /\ \E g \in GroupNames, p \in Paths, h \in {H1, H2} :
          /\ groups' = [groups EXCEPT ![g] = HandleFunc(@, p, h)]
          /\ log' = Append(log, GroupCall("HandleFunc", g, NoDeprecation, p, h))
    /\ op' = "HandleFunc"
    /\ UNCHANGED <<r, version, ifVersion, ifIs, ifResult, versions, matcher, w,
                   wrapped, wraps, served,
                   registered, routes, mux, inflight>>

\* The handler a group holds for a path under its own version.
RouteHandler(g, p) == MapGet(g.routes[p], g.version)

CallServeRoute ==
    /\ op # "ServeRoute"
    /\ \E g \in GroupNames : \E p \in DOMAIN groups[g].routes :
          /\ w' = ServeHTTP(RouteHandler(groups[g], p), NewRecorder, r)
          /\ served' = <<g, p>>
    /\ op' = "ServeRoute"
    /\ UNCHANGED <<r, version, ifVersion, ifIs, ifResult, versions, matcher, wrapped,
                   wraps, groups, log,
                   registered, routes, mux, inflight>>

NextGroup == CallGroupDeprecated \/ CallHandle \/ CallHandleFunc \/ CallServeRoute

SpecGroup == InitGroup /\ [][NextGroup]_vars

(***************************************************************************)
(* SpecRegister: two groups register their handler for paths, are marked   *)
(* deprecated and are given to RegisterGroups, at most MaxRegisters times; *)
(* a matcher RegisterGroups returned serves a request.                     *)
(***************************************************************************)
InitRegister ==
    /\ \E vs \in GroupVersions : groups = [g \in RegisterGroupNames |-> NewGroup(vs[g])]
    /\ log = <<>>
    /\ served = <<>>
    /\ registered = <<>>
    /\ routes = <<>>
    /\ mux = <<>>
    /\ r = EmptyRequest
    /\ w = NewRecorder
    /\ version = <<>>
    /\ versions = <<>>
    /\ matcher = NoMatcher
    /\ op = "init"
    /\ IdleInflight
    /\ IdleIf
    /\ IdleDeprecated

CallRegisterHandle ==
    /\ op # "ServeRegistered"
    /\ \E gp \in GroupRoutes :
          groups' = [groups EXCEPT ![gp[1]] = Handle(@, gp[2], GroupHandler(gp[1]))]
    /\ op' = "Handle"
    /\ UNCHANGED <<r, version, ifVersion, ifIs, ifResult, versions, matcher, w,
                   wrapped, wraps, log, served, registered, routes, mux, inflight>>

\* Group.Deprecated, once, on the group of the older version.
CallRegisterDeprecated ==
    /\ op # "ServeRegistered"
    /\ \E g \in DeprecatedGroupNames :
          /\ groups[g].deprecation = NoDeprecation
          /\ groups' = [groups EXCEPT ![g] = GroupDeprecated(@, TestOptions)]
    /\ op' = "Deprecated"
    /\ UNCHANGED <<r, version, ifVersion, ifIs, ifResult, versions, matcher, w,
                   wrapped, wraps, log, served, registered, routes, mux, inflight>>

\* The orders in which a range over the Map m can visit its keys, the
\* NotFound key first: buildConstraints sets that key aside wherever it
\* comes, so its place changes nothing.
ConstraintOrders(m) ==
    {(IF NotFound \in DOMAIN m THEN <<NotFound>> ELSE <<>>) \o o :
        o \in Enumerations(DOMAIN m \ {NotFound})}

\* The choices of the order in which NewMatcher ranges over the Map of
\* each path of "paths".
RECURSIVE RangeOrders(_, _, _, _)
RangeOrders(gs, notFoundHandlerArg, list, paths) ==
    IF paths = {} THEN {<<>>}
    ELSE LET p == CHOOSE q \in paths : TRUE
         IN  {MapSet(f, p, o) :
                 f \in RangeOrders(gs, notFoundHandlerArg, list, paths \ {p}),
                 o \in ConstraintOrders(TotalVersions(gs, notFoundHandlerArg, list, p))}

RegisterCall(notFoundHandlerArg, list) ==
    [notFoundHandler |-> notFoundHandlerArg, groups |-> list]

\* RegisterGroups, called with a mux of its own: the mux holds what this
\* call registered.
CallRegisterGroups ==
    /\ op # "ServeRegistered"
    /\ Len(registered) < MaxRegisters
    /\ \E fallback \in {NilHandler, notFoundHandler}, list \in GroupLists :
          \E orders \in RangeOrders(groups, fallback, list, GroupPaths(groups, list)) :
             /\ groups' = RegisterGroupsWrites(groups, fallback, list)
             /\ routes' = RegisterGroups(groups, fallback, list, orders)
             /\ mux' = IF routes' # Panic THEN routes' ELSE <<>>
             /\ registered' = Append(registered, RegisterCall(fallback, list))
    /\ op' = "RegisterGroups"
    /\ UNCHANGED <<r, version, ifVersion, ifIs, ifResult, versions, matcher, w,
                   wrapped, wraps, log, served, inflight>>

\* A matcher RegisterGroups has just returned serves a request.
CallServeRegistered ==
    /\ op = "RegisterGroups"
    /\ routes # Panic
    /\ \E p \in DOMAIN routes, req \in RegisterRequests :
          /\ r' = req
          /\ w' = ServeHTTP(routes[p], NewRecorder, req)
          /\ served' = <<p>>
    /\ op' = "ServeRegistered"
    /\ UNCHANGED <<version, ifVersion, ifIs, ifResult, versions, matcher, wrapped,
                   wraps, groups, log, registered, routes, mux, inflight>>

NextRegister ==
    CallRegisterHandle \/ CallRegisterDeprecated \/ CallRegisterGroups
        \/ CallServeRegistered

SpecRegister == InitRegister /\ [][NextRegister]_vars

(***************************************************************************)
(* SpecShared: NewMatcher builds one matcher from a Map; goroutines then   *)
(* run its handler, each on requests of its own, their steps interleaved   *)
(* in any order.                                                           *)
(***************************************************************************)
InitShared ==
    /\ versions \in SharedMaps
    /\ r = EmptyRequest
    /\ matcher = NoMatcher
    /\ w = NewRecorder
    /\ version = <<>>
    /\ inflight = [p \in Procs |-> NoRun]
    /\ op = "init"
    /\ IdleRegister
    /\ IdleIf
    /\ IdleDeprecated
    /\ IdleGroup

\* A goroutine outside the handler calls it with a request.
Enter(p) ==
    /\ matcher.kind = "Matcher"
    /\ inflight[p].pc \in {"idle", "done"}
    /\ inflight[p].n < MaxRuns
    /\ \E req \in SharedRequests :
          inflight' = [inflight EXCEPT ![p] = EnterServeHTTP(inflight[p], req)]
    /\ op' = "Enter"
    /\ UNCHANGED <<r, version, ifVersion, ifIs, ifResult, versions, matcher, w,
                   wrapped, wraps, groups, log, served, registered, routes, mux>>

\* A goroutine in the handler resolves and parses the version.
Resolve(p) ==
    /\ matcher.kind = "Matcher"
    /\ inflight[p].pc = "GetVersion"
    /\ inflight' = [inflight EXCEPT ![p] = ResolveStep(matcher, inflight[p])]
    /\ matcher' = CapturedAfterStep(matcher, inflight[p])
    /\ op' = "Resolve"
    /\ UNCHANGED <<r, version, ifVersion, ifIs, ifResult, versions, w,
                   wrapped, wraps, groups, log, served, registered, routes, mux>>

\* A goroutine in the handler makes one iteration of the range.
Range(p) ==
    /\ matcher.kind = "Matcher"
    /\ inflight[p].pc = "range"
    /\ inflight' = [inflight EXCEPT ![p] = RangeStep(matcher, inflight[p])]
    /\ matcher' = CapturedAfterStep(matcher, inflight[p])
    /\ op' = "Range"
    /\ UNCHANGED <<r, version, ifVersion, ifIs, ifResult, versions, w,
                   wrapped, wraps, groups, log, served, registered, routes, mux>>

NextShared ==
    \/ CallNewMatcher
    \/ \E p \in Procs : Enter(p)
    \/ \E p \in Procs : Resolve(p)
    \/ \E p \in Procs : Range(p)

SpecShared == InitShared /\ [][NextShared]_vars

(***************************************************************************)
(* Claims about GetVersion.                                                *)
(***************************************************************************)

\* v is a non-empty piece of the header a that starts right after an "="
\* standing somewhere after an occurrence of "version" and holds no space.
IsVersionToken(a, v) ==
    /\ v # <<>>
    /\ \A k \in 1..Len(v) : v[k] # " "
    /\ \E i \in 0..Len(a) : \E j \in i..Len(a) :
          /\ HasPrefix(SliceFrom(a, i), AcceptHeaderVersionValue)
          /\ j >= i + Len(AcceptHeaderVersionValue)
          /\ j < Len(a)
          /\ a[j + 1] = "="
          /\ HasPrefix(SliceFrom(a, j + 1), v)

ClaimedAcceptVersion(a) ==
    LET idx   == Index(a, AcceptHeaderVersionValue)
        after == SliceFrom(a, idx + Len(AcceptHeaderVersionValue))
    IN  IF after = <<>> \/ Head(after) # "=" THEN NotFound
        ELSE LET rem == Tail(after)
                 sp  == Index(rem, <<" ">>)
                 sc  == Index(rem, <<";">>)
                 end == IF sp # -1 THEN sp ELSE IF sc # -1 THEN sc ELSE Len(rem)
             IN  IF end = 0 THEN NotFound ELSE Slice(rem, 0, end)

\* C5: when GetVersion reads an Accept header that contains "version", the
\* result is the text after the "=" immediately following it, cut at the
\* first space, else the first semicolon, else the end, and NotFound when
\* there is no such "=", nothing follows it, or the cut value is empty.
CexC5_EqualsImmediatelyFollows ==
    (/\ op = "GetVersion"
     /\ r.ctx.type # "string"
     /\ r.AcceptVersion = <<>>
     /\ Index(r.Accept, AcceptHeaderVersionValue) # -1)
        => version[1] = ClaimedAcceptVersion(r.Accept)

(***************************************************************************)
(* Claims about If.                                                        *)
(***************************************************************************)

\* C6: If is total: it answers false whenever the version or the
\* constraint expression fails to parse, and otherwise what the parsed
\* constraint says of the parsed version; If("1.0", ">=1") and
\* If("1.2.3", "> 1.2") are true.
ThmC6_IfTotal ==
    op = "If" =>
        LET ver == NewVersion(ifVersion)
            constraints == NewConstraint(ifIs)
        IN  /\ ifResult \in {<<TRUE>>, <<FALSE>>}
            /\ (~ver.ok \/ constraints = <<>>) => ifResult = <<FALSE>>
            /\ (ver.ok /\ constraints # <<>>) => ifResult = <<Check(constraints, ver)>>
            /\ (ifVersion = <<"1",".","0">> /\ ifIs = cGe1) => ifResult = <<TRUE>>
            /\ (ifVersion = <<"1",".","2",".","3">> /\ ifIs = cGt12) => ifResult = <<TRUE>>

\* If was asked about a good version and a malformed constraint expression
\* and answered false.
WitC6_MalformedConstraint ==
    /\ op = "If"
    /\ ifVersion = <<"1",".","0">>
    /\ ifIs = cMalformed
    /\ ifResult = <<FALSE>>

(***************************************************************************)
(* Claims about NewMatcher.                                                *)
(***************************************************************************)

\* The version string the request resolves to.
Resolved == GetVersion(r)

\* The keys of the Map whose constraint the resolved version satisfies.
SatisfiedKeys ==
    {k \in DOMAIN versions \ {NotFound} :
        /\ NewVersion(Resolved).ok
        /\ NewConstraint(k) # <<>>
        /\ Check(NewConstraint(k), NewVersion(Resolved))}

\* The request has to go to the fallback handler.
IsFallbackCase ==
    Resolved = NotFound \/ ~NewVersion(Resolved).ok \/ SatisfiedKeys = {}

\* The fallback handler of the Map.
Fallback ==
    IF NotFound \in DOMAIN versions /\ versions[NotFound] # NilHandler
    THEN versions[NotFound]
    ELSE NotFoundHandler

\* C1: a served request runs exactly one handler, once: the fallback when
\* the version is the sentinel, does not parse or satisfies no key, else a
\* handler whose key the version satisfies.
ThmC1_ExactlyOneHandler ==
    op = "ServeHTTP" =>
        /\ Len(w.calls) = 1
        /\ IF IsFallbackCase THEN w.calls[1].handler = Fallback
           ELSE \E k \in SatisfiedKeys : w.calls[1].handler = versions[k]

\* Version 1.0 satisfies the keys "1.0" and ">=1", bound to different
\* handlers; the handler of ">=1" ran, alone.
WitC1_OverlappingKeys ==
    /\ op = "ServeHTTP"
    /\ DOMAIN versions = {c10, cGe1}
    /\ versions[c10] = H1
    /\ versions[cGe1] = H2
    /\ r = WithAcceptVersion(<<"1",".","0">>)
    /\ Len(w.calls) = 1
    /\ w.calls[1].handler = H2

\* C2: the matcher sets X-API-Version if and only if it dispatches to a
\* constraint-matched handler, never on a fallback dispatch.
ThmC2_HeaderIffMatched ==
    op = "ServeHTTP" => (w.header["X-API-Version"] # <<>> <=> ~IsFallbackCase)

\* Version 3.0 parses but satisfies no key of the Map of the tests: the
\* default fallback ran and no X-API-Version was set.
WitC2_FallbackNoHeader ==
    /\ op = "ServeHTTP"
    /\ versions = TestMap
    /\ r = WithAcceptVersion(<<"3",".","0">>)
    /\ Len(w.calls) = 1
    /\ w.calls[1].handler = NotFoundHandler
    /\ w.header["X-API-Version"] = <<>>

\* C3: on a successful match X-API-Version carries the resolved version
\* string of the request; with {"1.0": H1, ">= 2, < 3": H2} a request that
\* resolves to "1.0" runs H1 and the header is "1.0".
CexC3_HeaderIsResolvedString ==
    (op = "ServeHTTP" /\ ~IsFallbackCase) =>
        /\ w.header["X-API-Version"] = <<Resolved>>
        /\ (versions = TestMap /\ Resolved = <<"1",".","0">>) =>
               /\ w.calls[1].handler = H1
               /\ w.header["X-API-Version"] = << <<"1",".","0">> >>

\* C3, amended: on a successful match X-API-Version carries the canonical
\* form of the parsed version (Version.String: at least three segments, no
\* "v", no leading zeros); with {"1.0": H1, ">= 2, < 3": H2} a request that
\* resolves to "1.0" runs H1 and the header is "1.0.0".
ThmC3_HeaderIsCanonicalVersion ==
    (op = "ServeHTTP" /\ ~IsFallbackCase) =>
        /\ w.header["X-API-Version"] = <<VersionString(NewVersion(Resolved))>>
        /\ (versions = TestMap /\ Resolved = <<"1",".","0">>) =>
               /\ w.calls[1].handler = H1
               /\ w.header["X-API-Version"] = << <<"1",".","0",".","0">> >>

\* The request of the claim: version "1.0" against the Map of the tests.
WitC3_OneDotZero ==
    /\ op = "ServeHTTP"
    /\ versions = TestMap
    /\ r = WithAcceptVersion(<<"1",".","0">>)
    /\ w.calls[1].handler = H1
    /\ w.header["X-API-Version"] = << <<"1",".","0",".","0">> >>

\* Some key of the Map other than NotFound is no constraint expression.
HasMalformedKey == \E k \in DOMAIN versions \ {NotFound} : NewConstraint(k) = <<>>

\* C7: NewMatcher on a Map with a malformed key panics and returns no
\* matcher: no matcher drops the entry, none serves a request.
ThmC7_MalformedKeyPanics ==
    /\ (op = "NewMatcher" /\ HasMalformedKey) => matcher = Panic
    /\ op = "ServeHTTP" => ~HasMalformedKey
    /\ matcher.kind = "Matcher" =>
          Len(matcher.constraintsHandlers) = Cardinality(DOMAIN versions \ {NotFound})

\* A Map with a good and a malformed key made NewMatcher panic.
WitC7_PanicOnMalformedKey ==
    /\ op = "NewMatcher"
    /\ DOMAIN versions = {c10, cMalformed}
    /\ matcher = Panic

(***************************************************************************)
(* Claims about Deprecated and Group.                                      *)
(***************************************************************************)
DeprecationHeaderKeys ==
    {"X-API-Warn", "X-API-Deprecation-Date", "X-API-Deprecation-Info"}

\* "Wed, 02 Jan 2019 15:04:05 GMT"
TimeUTCHeader ==
    <<"W","e","d",","," ","0","2"," ","J","a","n"," ","2","0","1","9"," ","1","5",":","0","4",":","0","5"," ","G","M","T">>

\* C10: the handler Deprecated returns sets, before it invokes the wrapped
\* handler exactly once, X-API-Warn to the warning message (the default
\* message when it is empty), X-API-Deprecation-Date in HeaderTimeFormat
\* only for a non-zero date and X-API-Deprecation-Info only when non-empty;
\* with only a warning message it sets the warning header alone.
ThmC10_DeprecatedHeaders ==
    (op = "ServeDeprecated" /\ Len(wraps) = 1) =>
        LET o == wraps[1]
            seen == w.calls[1].header
        IN  /\ Len(w.calls) = 1
            /\ w.calls[1].handler = wrapped.handler
            /\ w.calls[1].handler \in {H1, NotFoundHandler}
            /\ seen["X-API-Warn"] =
                  <<IF o.WarnMessage = ""
                    THEN "WARNING! You are using a deprecated version of this API."
                    ELSE o.WarnMessage>>
            /\ o.DeprecationDate = ZeroTime => seen["X-API-Deprecation-Date"] = <<>>
            /\ o.DeprecationDate = TimeUTC =>
                  seen["X-API-Deprecation-Date"] = <<TimeUTCHeader>>
            /\ o.DeprecationDate # ZeroTime =>
                  seen["X-API-Deprecation-Date"] = <<FormatHeaderTime(o.DeprecationDate)>>
            /\ seen["X-API-Deprecation-Info"] =
                  (IF o.DeprecationInfo = "" THEN <<>> ELSE <<o.DeprecationInfo>>)
            /\ seen["X-API-Version"] = <<>>
            /\ w.header = seen

\* A handler wrapped with only a warning message was served: the warning
\* header was there when the handler ran, no date and no info header.
WitC10_WarnOnly ==
    /\ op = "ServeDeprecated"
    /\ wraps = <<[NoDeprecation EXCEPT !.WarnMessage = testWarnMessage]>>
    /\ Len(w.calls) = 1
    /\ w.calls[1].header["X-API-Warn"] = <<testWarnMessage>>
    /\ w.header["X-API-Deprecation-Date"] = <<>>
    /\ w.header["X-API-Deprecation-Info"] = <<>>

\* One call made on a group, applied to the group.
ApplyCall(g, c) ==
    CASE c.call = "Deprecated" -> GroupDeprecated(g, c.options)
      [] c.call = "Handle"     -> Handle(g, c.path, c.handler)
      [] c.call = "HandleFunc" -> HandleFunc(g, c.path, c.handler)

\* The group after a sequence of calls.
RECURSIVE Replay(_, _)
Replay(g, calls) ==
    IF calls = <<>> THEN g ELSE Replay(ApplyCall(g, Head(calls)), Tail(calls))

\* The calls of the log made on the group g.
CallsOn(g) == SelectSeq(log, LAMBDA c : c.group = g)

IsHandleCall(c) == c.call \in {"Handle", "HandleFunc"}

\* The sequence of calls is one Deprecated followed by Handle calls.
DeprecatedThenHandles(calls) ==
    /\ Len(calls) >= 2
    /\ calls[1].call = "Deprecated"
    /\ \A i \in 2..Len(calls) : IsHandleCall(calls[i])

\* The sequence of calls is Handle calls followed by one Deprecated.
HandlesThenDeprecated(calls) ==
    /\ Len(calls) >= 2
    /\ calls[Len(calls)].call = "Deprecated"
    /\ \A i \in 1..(Len(calls) - 1) : IsHandleCall(calls[i])

\* The same calls with the Deprecated call moved to the other end.
OtherOrder(calls) ==
    IF calls[1].call = "Deprecated"
    THEN Tail(calls) \o <<Head(calls)>>
    ELSE <<calls[Len(calls)]>> \o SubSeq(calls, 1, Len(calls) - 1)

\* C8: in a group on which Deprecated was called at any point, every
\* registered handler emits the deprecation headers when served, and
\* Deprecated;Handle and Handle;Deprecated give handlers with the same
\* response headers and body, for every options value and path.
CexC8_DeprecatedOrderIrrelevant ==
    op = "ServeRoute" =>
        LET g == served[1]
            p == served[2]
            calls == CallsOn(g)
            other == Replay(NewGroup(groups[g].version), OtherOrder(calls))
            wOther == ServeHTTP(RouteHandler(other, p), NewRecorder, r)
        IN  /\ (\E i \in 1..Len(calls) : calls[i].call = "Deprecated") =>
                  w.header["X-API-Warn"] # <<>>
            /\ (DeprecatedThenHandles(calls) \/ HandlesThenDeprecated(calls)) =>
                  /\ wOther.header = w.header
                  /\ wOther.body = w.body

\* The options are active: some field is non-empty / non-zero.
IsActive(o) ==
    o.WarnMessage # "" \/ o.DeprecationDate # ZeroTime \/ o.DeprecationInfo # ""

\* C9: options are active iff some field is non-empty / non-zero, and
\* inactive options never cause a deprecation header, whether given to
\* Deprecated(handler, options) or to Group.Deprecated before or after the
\* Handle calls.
CexC9_InactiveOptionsNoHeader ==
    /\ \A o \in Options : ShouldHandle(o) <=> IsActive(o)
    /\ (/\ op = "ServeRoute"
        /\ \A i \in 1..Len(log) : log[i].call = "Deprecated" => ~IsActive(log[i].options))
          => \A k \in DeprecationHeaderKeys : w.header[k] = <<>>

\* The handler under the Deprecated wrappers of h.
RECURSIVE Unwrap(_)
Unwrap(h) == IF h.kind = "Deprecated" THEN Unwrap(h.handler) ELSE h

\* The i-th call on a group is the first Handle or HandleFunc for its path.
IsFirstHandle(calls, i) ==
    /\ IsHandleCall(calls[i])
    /\ \A j \in 1..(i - 1) : ~(IsHandleCall(calls[j]) /\ calls[j].path = calls[i].path)

\* The calls without the Handle and HandleFunc calls that came after the
\* first one for their path.
RECURSIVE FirstHandlesOnly(_, _)
FirstHandlesOnly(calls, i) ==
    IF i > Len(calls) THEN <<>>
    ELSE (IF IsHandleCall(calls[i]) /\ ~IsFirstHandle(calls, i) THEN <<>> ELSE <<calls[i]>>)
         \o FirstHandlesOnly(calls, i + 1)

\* C11: Handle and HandleFunc for a path the group already holds change
\* nothing: after any sequence of calls the group holds, for each path that
\* was registered, one handler under its own version, which is the handler
\* of the first call for that path (under the wrappers of Deprecated), and
\* the group is the one the calls without the later registrations give.
ThmC11_FirstHandleWins ==
    \A g \in DOMAIN groups :
        LET calls == CallsOn(g)
        IN  /\ DOMAIN groups[g].routes =
                  {calls[i].path : i \in {j \in 1..Len(calls) : IsHandleCall(calls[j])}}
            /\ \A i \in 1..Len(calls) :
                  IsFirstHandle(calls, i) =>
                      /\ DOMAIN groups[g].routes[calls[i].path] = {groups[g].version}
                      /\ Unwrap(RouteHandler(groups[g], calls[i].path)) = calls[i].handler
            /\ groups[g] = Replay(NewGroup(groups[g].version), FirstHandlesOnly(calls, 1))

\* A path was registered with one handler and then again with another one:
\* the group holds the first.
WitC11_SecondHandleIgnored ==
    /\ Len(log) >= 2
    /\ IsHandleCall(log[1]) /\ IsHandleCall(log[2])
    /\ log[1].group = log[2].group
    /\ log[1].path = log[2].path
    /\ log[1].handler = H1 /\ log[2].handler = H2
    /\ RouteHandler(groups[log[1].group], log[1].path) = H1

\* The headers a wrapper with the options o sets, each as <<>> or <<value>>.
OptionHeaders(o) ==
    [k \in DeprecationHeaderKeys |->
        CASE k = "X-API-Warn" ->
                 <<IF o.WarnMessage = "" THEN DefaultDeprecationOptions.WarnMessage
                   ELSE o.WarnMessage>>
          [] k = "X-API-Deprecation-Date" ->
                 IF IsZero(o.DeprecationDate) THEN <<>>
                 ELSE <<FormatHeaderTime(o.DeprecationDate)>>
          [] k = "X-API-Deprecation-Info" ->
                 IF o.DeprecationInfo = "" THEN <<>> ELSE <<o.DeprecationInfo>>]

\* C16 as stated: Deprecated(Deprecated(h, A), B) applies both sets of
\* headers and calls h once; a header both options set has a single value,
\* the one of B, the wrapper applied last.
CexC16_LastAppliedWrapperWins ==
    (op = "ServeDeprecated" /\ Len(wraps) = 2) =>
        LET A == OptionHeaders(wraps[1])
            B == OptionHeaders(wraps[2])
        IN  /\ Len(w.calls) = 1
            /\ \A k \in DeprecationHeaderKeys :
                  /\ (A[k] # <<>> \/ B[k] # <<>>) => Len(w.header[k]) = 1
                  /\ (A[k] # <<>> /\ B[k] # <<>>) => w.header[k] = B[k]

\* C16: Deprecated(Deprecated(h, A), B) applies both sets of headers and
\* calls h once, after the headers are set; a header both options set has a
\* single value, the one of A, the wrapper applied first: the outer wrapper
\* sets its headers before the inner one, which overwrites them.  A header
\* only one of them sets carries that one's value.
ThmC16_InnerWrapperWins ==
    (op = "ServeDeprecated" /\ Len(wraps) = 2) =>
        LET A == OptionHeaders(wraps[1])
            B == OptionHeaders(wraps[2])
        IN  /\ Len(w.calls) = 1
            /\ w.calls[1].handler \in {H1, NotFoundHandler}
            /\ w.calls[1].handler = wrapped.handler.handler
            /\ \A k \in DeprecationHeaderKeys :
                  /\ w.header[k] = (IF A[k] # <<>> THEN A[k] ELSE B[k])
                  /\ Len(w.header[k]) <= 1
                  /\ w.calls[1].header[k] = w.header[k]

\* A handler wrapped with the date of one clock and then with the warning
\* message and the date of another clock was served: the response has the
\* default warning message and the date of the first wrapping.
WitC16_ConflictingWarnAndDate ==
    /\ op = "ServeDeprecated"
    /\ Len(wraps) = 2
    /\ wraps[1] = [NoDeprecation EXCEPT !.DeprecationDate = TimeUTC]
    /\ wraps[2] = [TestOptions EXCEPT !.DeprecationDate = TimeEast]
    /\ w.header["X-API-Warn"] = <<DefaultDeprecationOptions.WarnMessage>>
    /\ w.header["X-API-Deprecation-Date"] = <<TimeUTCHeader>>
    /\ w.header["X-API-Deprecation-Info"] = <<testDeprecationInfo>>
    /\ Len(w.calls) = 1

(***************************************************************************)
(* Claims about RegisterGroups.                                            *)
(***************************************************************************)

\* The last call of RegisterGroups, the groups given to it and the path of
\* the matcher that served.
LastRegister == registered[Len(registered)]

PassedGroups == {LastRegister.groups[i] : i \in 1..Len(LastRegister.groups)}

ServedPath == served[1]

\* The groups given to the last call that hold the served path, and those
\* of them whose version the request satisfies.
GroupsWithServedPath == {g \in PassedGroups : ServedPath \in DOMAIN groups[g].routes}

SatisfiedGroups == {g \in GroupsWithServedPath : Match(r, groups[g].version)}

\* The request satisfies no constraint of the matcher that served it.
MatchesNoConstraint ==
    LET ver == NewVersion(GetVersion(r))
    IN  \/ GetVersion(r) = NotFound
        \/ ~ver.ok
        \/ FirstMatch(routes[ServedPath].constraintsHandlers, ver) = 0

\* C17: RegisterGroups leaves the groups given to it as they were: after any
\* calls of Handle, Deprecated and RegisterGroups every path of a group has
\* one entry, under the version of the group, and a matcher RegisterGroups
\* returns runs only the handlers of the groups given to that call or the
\* fallback given to it.
CexC17_GroupsUnchanged ==
    /\ \A g \in DOMAIN groups : \A p \in DOMAIN groups[g].routes :
          DOMAIN groups[g].routes[p] = {groups[g].version}
    /\ op = "ServeRegistered" =>
          w.calls[1].handler \in
              {GroupHandler(g) : g \in PassedGroups}
                  \cup {IF LastRegister.notFoundHandler = NilHandler
                        THEN NotFoundHandler ELSE LastRegister.notFoundHandler}

\* C12: RegisterGroups over groups of distinct versions returns one matcher
\* for each path of any of the groups; for a path several of the groups
\* hold, the matcher runs the handler of a group whose version the request
\* satisfies, and the fallback handler given to RegisterGroups when the
\* request satisfies the version of none of the groups.
CexC12_OneMatcherPerPath ==
    (/\ registered # <<>>
     /\ \A g, h \in PassedGroups : g # h => groups[g].version # groups[h].version)
        => /\ op = "RegisterGroups" =>
                 /\ DOMAIN routes = GroupPaths(groups, LastRegister.groups)
                 /\ \A p \in DOMAIN routes : routes[p].kind = "Matcher"
           /\ (/\ op = "ServeRegistered"
               /\ Cardinality(GroupsWithServedPath) >= 2
               /\ LastRegister.notFoundHandler # NilHandler)
                 => /\ Len(w.calls) = 1
                    /\ IF SatisfiedGroups = {}
                       THEN w.calls[1].handler = LastRegister.notFoundHandler
                       ELSE \E g \in SatisfiedGroups :
                               w.calls[1].handler = GroupHandler(g)

\* C13: when RegisterGroups is given a nil fallback, a request that
\* satisfies no constraint of the matcher is answered by NotFoundHandler:
\* status 501 and the body "version not found".
CexC13_NilFallbackIsDefault ==
    (/\ op = "ServeRegistered"
     /\ LastRegister.notFoundHandler = NilHandler
     /\ MatchesNoConstraint)
        => /\ w.status = 501
           /\ w.body = <<versionNotFoundText>>
           /\ w.calls[1].handler = NotFoundHandler

\* C15: when two groups given to RegisterGroups have the same version and
\* both hold a path, the matcher of the path runs, for a request that
\* satisfies the version, the handler of the one that comes later in the
\* arguments.
CexC15_LaterGroupWins ==
    op = "ServeRegistered" =>
        LET list == LastRegister.groups
        IN  \A i, j \in 1..Len(list) :
               (/\ i < j
                /\ list[i] # list[j]
                /\ groups[list[i]].version = groups[list[j]].version
                /\ {list[i], list[j]} \subseteq GroupsWithServedPath
                /\ \A k \in (j + 1)..Len(list) :
                      groups[list[k]].version # groups[list[j]].version
                /\ Match(r, groups[list[j]].version))
                   => w.calls[1].handler = GroupHandler(list[j])


(***************************************************************************)
(* Claims about requests served by one matcher at the same time.           *)
(***************************************************************************)

\* The goroutines whose run of the handler has returned.
RunsDone == {p \in Procs : inflight[p].pc = "done"}

\* The pairs of the matcher whose constraints the version string v satisfies.
OverlappingPairs(v) ==
    {i \in 1..Len(matcher.constraintsHandlers) :
        Check(matcher.constraintsHandlers[i].constraints, NewVersion(v))}

\* Every run that has returned wrote what the matcher writes for its request
\* when it serves it alone, and two runs of the same request ran the same
\* handler and set the same X-API-Version.
RunsAsAlone ==
    matcher.kind = "Matcher" =>
       /\ \A p \in RunsDone :
             inflight[p].w = ServeHTTP(matcher, NewRecorder, inflight[p].req)
       /\ \A p, q \in RunsDone :
             inflight[p].req = inflight[q].req =>
                /\ inflight[p].w.calls = inflight[q].w.calls
                /\ inflight[p].w.header["X-API-Version"]
                      = inflight[q].w.header["X-API-Version"]

====
